---------------------------- MODULE Spec2Model ----------------------------
(***************************************************************************)
(* Model of get_predictions.py: the driver loop of main (sampling, top-2   *)
(* scan, confidence ratio, per-label counters and f-score, micro/macro f)  *)
(* and the four active-learning orderings at the end of main.              *)
(*                                                                         *)
(* Numbers.  A confidence is an integer number of score units (a score s   *)
(* stands for s / MaxScore, so 0 .. MaxScore covers [0,1]).  Quotients the *)
(* code computes in floating point are exact rationals <<num, den>> here;  *)
(* the quotient numpy returns for a positive float32 divided by 0.0 (inf,  *)
(* with a RuntimeWarning) is <<1, 0>>.  Dividing the Python float 0.0 or a *)
(* Python int by zero raises ZeroDivisionError, which ends the run.        *)
(*                                                                         *)
(* Dictionaries are sequences of entries in insertion order, the order in  *)
(* which Python iterates over a dict.                                      *)
(*                                                                         *)
(* The four ordering blocks at the end of main are alternatives, switched  *)
(* by commenting; exactly one of them is live in a run (strategy).  The    *)
(* print of line 261 is taken as the body of the loop of line 260.         *)
(***************************************************************************)
EXTENDS Integers, Sequences, FiniteSets, TLC

\* ---------------------------------------------------------------- bounds
MaxScore == 2          \* confidences range over 0 .. MaxScore score units
MaxImages == 2         \* files listed over all label directories of a run
MaxDirs == 2           \* label directories under FLAGS.directory
MaxSorted == 4         \* length of all_predictions when the sorts are run alone
MaxRecords == 6        \* length of all_predictions when the interleavings are run alone

\* ------------------------------------------------------- program constants
DefaultNumTop == 5     \* --num_top_predictions default

\* ------------------------------------------------------------- the inputs
\* Lines of a labels file (load_labels): non-empty, distinct, lowercase
\* alphanumerics and inner spaces.  The runs of the whole program use the
\* first two, the orderings run alone all three.
LabelsFile == <<"a", "a a", "b">>
TwoLabels == SubSeq(LabelsFile, 1, 2)

\* Names of the label directories under FLAGS.directory, as character
\* sequences so that the normalisation of main can be computed.
DirNames == << <<"a">>, <<"A", "_", "-", "a">>, <<"B">> >>

Upper == <<"A", "B">>
Lowered == <<"a", "b">>
Allowed == {"a", "b", "0", "1"}

Scores == 0 .. MaxScore

\* ----------------------------------------------------------- arithmetic
RECURSIVE GCD(_, _)
GCD(a, b) == IF b = 0 THEN a ELSE GCD(b, a % b)

\* A rational in lowest terms; the denominator of a finite value is > 0.
Rat(n, d) == LET g == GCD(n, d) IN IF g = 0 THEN <<n, d>> ELSE <<n \div g, d \div g>>
RatAdd(p, q) == Rat(p[1] * q[2] + q[1] * p[2], p[2] * q[2])
RatMul(p, q) == Rat(p[1] * q[1], p[2] * q[2])
RatDiv(p, q) == Rat(p[1] * q[2], p[2] * q[1])
RatOfInt(n) == <<n, 1>>
Zero == RatOfInt(0)
\* p < q for values with a denominator >= 0, <<1, 0>> above every finite one
RatLess(p, q) == p[1] * q[2] < q[1] * p[2]

Min(a, b) == IF a < b THEN a ELSE b

RECURSIVE SeqSum(_)
SeqSum(s) == IF s = <<>> THEN 0 ELSE Head(s) + SeqSum(Tail(s))

\* ------------------------------------------------------------ the oracle
\* predictions.argsort(): the index orders argsort may return.  The default
\* sort is not stable, so equal scores come in any order.
ArgSorts(scores) ==
  LET n == Len(scores) IN
  { p \in [1 .. n -> 1 .. n] :
      /\ \A i, j \in 1 .. n : i # j => p[i] # p[j]
      /\ \A i \in 1 .. n - 1 : scores[p[i]] <= scores[p[i + 1]] }

\* run_graph: the dict of the num_top_predictions best labels, inserted from
\* the most to the least confident.
RunGraph(scores, labels, num_top_predictions) ==
  LET n == Len(scores)
      k == Min(num_top_predictions, n)
  IN { [i \in 1 .. k |-> [label |-> labels[p[n + 1 - i]], score |-> scores[p[n + 1 - i]]]] :
         p \in ArgSorts(scores) }

\* get_image_prediction: nothing for a file that is no .jpg / .jpeg.
GetImagePrediction(jpg, label_predictions) == IF jpg THEN label_predictions ELSE <<>>

\* Everything the oracle may answer for one file.
OracleAnswers(labels_, num_top_predictions) ==
  { GetImagePrediction(FALSE, <<>>) } \cup
  UNION { { GetImagePrediction(TRUE, lp) : lp \in RunGraph(scores, labels_, num_top_predictions) } :
          scores \in [1 .. Len(labels_) -> Scores] }

\* ------------------------------------------------- label from a directory
LowerChar(c) == IF \E i \in 1 .. Len(Upper) : Upper[i] = c
                THEN Lowered[CHOOSE i \in 1 .. Len(Upper) : Upper[i] = c]
                ELSE c

\* re.sub("[^a-z0-9]+", ' ', label.lower()): every maximal run of forbidden
\* characters becomes one space.
RECURSIVE NormalizeFrom(_, _, _)
NormalizeFrom(name, i, inRun) ==
  IF i > Len(name) THEN ""
  ELSE LET c == LowerChar(name[i]) IN
       IF c \in Allowed THEN c \o NormalizeFrom(name, i + 1, FALSE)
       ELSE IF inRun THEN NormalizeFrom(name, i + 1, TRUE)
       ELSE " " \o NormalizeFrom(name, i + 1, TRUE)

LabelOfDir(name) == NormalizeFrom(name, 1, FALSE)

\* ------------------------------------------------------- the top-2 scan
ScanStart == [top_prediction |-> "", top_confidence |-> 0,
              second_prediction |-> "", second_confidence |-> 0]

ScanStep(st, prediction, confidence) ==
  IF confidence > st.top_confidence
  THEN [top_prediction |-> prediction,
        top_confidence |-> confidence,
        second_prediction |-> IF st.top_confidence > st.second_confidence
                              THEN st.top_prediction ELSE st.second_prediction,
        second_confidence |-> IF st.top_confidence > st.second_confidence
                              THEN st.top_confidence ELSE st.second_confidence]
  ELSE IF confidence > st.second_confidence
  THEN [st EXCEPT !.second_prediction = prediction, !.second_confidence = confidence]
  ELSE st

RECURSIVE ScanFrom(_, _, _)
ScanFrom(preds, i, st) ==
  IF i > Len(preds) THEN st
  ELSE ScanFrom(preds, i + 1, ScanStep(st, preds[i].label, preds[i].score))

\* The loop "for prediction in predictions" of main.
TopTwo(preds) == ScanFrom(preds, 1, ScanStart)

\* top_confidence / second_confidence.  Both are the Python float 0.0 until
\* an entry replaces them, and float32 values of the oracle afterwards.
RatioRaises(st) == st.second_confidence = 0 /\ st.top_confidence = 0
Ratio(st) == IF st.second_confidence = 0 THEN <<1, 0>>
             ELSE <<st.top_confidence, st.second_confidence>>

ImageInfo(image, st) ==
  [image |-> image,
   top_prediction |-> st.top_prediction, top_confidence |-> st.top_confidence,
   second_prediction |-> st.second_prediction, second_confidence |-> st.second_confidence,
   ratio |-> Ratio(st)]

\* ------------------------------------------------------------- f-score
FScore(tp_, fp_, fn_) ==
  IF tp_ = 0 THEN Zero
  ELSE LET precision == Rat(tp_, tp_ + fp_)
           recall == Rat(tp_, tp_ + fn_)
       IN RatDiv(RatMul(RatOfInt(2), RatMul(precision, recall)), RatAdd(precision, recall))

\* (mutant) the f-score added without its weight
MicroAddUnweighted(microfscores_, fscore, count_) == RatAdd(microfscores_, fscore)

\* What main adds for one label: fscore * count and fscore.
MicroAdd(microfscores_, fscore, count_) == RatAdd(microfscores_, RatMul(fscore, RatOfInt(count_)))
MacroAdd(macrofscores_, fscore) == RatAdd(macrofscores_, fscore)

\* ------------------------------------------------------------ orderings
\* The sort key of an image_info: x[2] or x[5].
KeyOf(info, key) == IF key = "top_confidence" THEN RatOfInt(info.top_confidence)
                    ELSE info.ratio

\* (mutant) an element put in front of the elements of equal key
InsertBeforeEqual(sorted, info, key) ==
  LET n == Cardinality({ i \in 1 .. Len(sorted) :
                          RatLess(KeyOf(sorted[i], key), KeyOf(info, key)) })
  IN SubSeq(sorted, 1, n) \o <<info>> \o SubSeq(sorted, n + 1, Len(sorted))

\* One element put into a sorted list behind every element that is not
\* greater: list.sort is stable.
InsertSorted(sorted, info, key) ==
  LET n == Cardinality({ i \in 1 .. Len(sorted) :
                          ~RatLess(KeyOf(info, key), KeyOf(sorted[i], key)) })
  IN SubSeq(sorted, 1, n) \o <<info>> \o SubSeq(sorted, n + 1, Len(sorted))

RECURSIVE SortFrom(_, _, _, _)
SortFrom(list, i, sorted, key) ==
  IF i > Len(list) THEN sorted
  ELSE SortFrom(list, i + 1, InsertSorted(sorted, list[i], key), key)

\* all_predictions.sort(key=lambda x: x[...], reverse=False)
ListSort(list, key) == SortFrom(list, 1, <<>>, key)

Images(list) == [i \in 1 .. Len(list) |-> list[i].image]

\* The dict key of an image_info: its top label, or the top and second labels
\* joined by a space.
LabelKey(info) == info.top_prediction
PairKey(info) == info.top_prediction \o " " \o info.second_prediction
QueueKey(info, pairs) == IF pairs THEN PairKey(info) ELSE LabelKey(info)

\* (mutant) the list of a new key put in front of the others
AddToQueueFront(queues, key, item) ==
  IF \E q \in 1 .. Len(queues) : queues[q].key = key
  THEN [q \in 1 .. Len(queues) |->
          IF queues[q].key = key
          THEN [queues[q] EXCEPT !.images = Append(@, item)]
          ELSE queues[q]]
  ELSE <<[key |-> key, images |-> <<item>>]>> \o queues

\* ordered_labels[key].append(image), with a new list for a new key.
AddToQueue(queues, key, item) ==
  IF \E q \in 1 .. Len(queues) : queues[q].key = key
  THEN [q \in 1 .. Len(queues) |->
          IF queues[q].key = key
          THEN [queues[q] EXCEPT !.images = Append(@, item)]
          ELSE queues[q]]
  ELSE Append(queues, [key |-> key, images |-> <<item>>])

RECURSIVE QueuesFrom(_, _, _, _)
QueuesFrom(list, i, queues, pairs) ==
  IF i > Len(list) THEN queues
  ELSE QueuesFrom(list, i + 1,
                  AddToQueue(queues, QueueKey(list[i], pairs), list[i].image), pairs)

\* The dict of lists built from all_predictions (lines 273-278, 297-302).
BuildQueues(list, pairs) == QueuesFrom(list, 1, <<>>, pairs)

\* images.pop(0)
PopFirst(queue) == [queue EXCEPT !.images = Tail(@)]

\* ---------------------------------------------------------------- state
VARIABLES
  FLAGS_num_top_predictions, \* --num_top_predictions
  labels,            \* the lines of FLAGS.labels
  strategy,          \* which of the four ordering blocks is the live one
  run,               \* 0: a single run; 1, 2: first and second run of a corpus
  corpus,            \* the directories and files listed so far, with the
                     \* oracle's answers that a second run has to repeat
  first,             \* what the first of two runs printed
  pc, traceback,     \* position in main; the line that raised, if any
  total_images, total_labels, microfscores, macrofscores, all_predictions,
  label, file_no, count, tp, fn, fp,
  image, predictions,
  top_prediction, top_confidence, second_prediction, second_confidence,
  label_report,      \* per label: the printed f-score, with the counters
  microf, macrof,
  ordered_labels, keep_going, next_label, output

config == <<FLAGS_num_top_predictions, labels, strategy>>
replay == <<run, corpus, first>>
totals == <<total_images, total_labels, microfscores, macrofscores, all_predictions>>
counters == <<label, count, tp, fn, fp>>
scanned == <<predictions, top_prediction, top_confidence, second_prediction, second_confidence>>
reported == <<label_report, microf, macrof>>
ordering == <<ordered_labels, keep_going, next_label, output>>
vars == <<config, replay, pc, traceback, totals, counters, file_no, image, scanned,
          reported, ordering>>

Strategies == 1 .. 4
NumTopChoices == {1, DefaultNumTop}

Unknown == [seen |-> FALSE, predictions |-> <<>>]
NoResult == [output |-> <<>>, label_report |-> <<>>, microf |-> Zero, macrof |-> Zero,
             images |-> <<>>]

Listed == SeqSum([d \in 1 .. Len(corpus) |-> Len(corpus[d].files)])
ListedNames == { corpus[d].name : d \in 1 .. Len(corpus) }
Replaying == run = 2

\* The state main starts from, for a given configuration and file system.
Start ==
  /\ pc = "dirs" /\ traceback = ""
  /\ total_images = 0 /\ total_labels = 0
  /\ microfscores = Zero /\ macrofscores = Zero
  /\ all_predictions = <<>>
  /\ label = "" /\ file_no = 0 /\ count = 0 /\ tp = 0 /\ fn = 0 /\ fp = 0
  /\ image = <<0, 0>> /\ predictions = <<>>
  /\ top_prediction = "" /\ top_confidence = 0
  /\ second_prediction = "" /\ second_confidence = 0
  /\ label_report = <<>> /\ microf = Zero /\ macrof = Zero
  /\ ordered_labels = <<>> /\ keep_going = FALSE /\ next_label = 0 /\ output = <<>>

Configured ==
  /\ FLAGS_num_top_predictions \in NumTopChoices
  /\ labels = TwoLabels
  /\ strategy \in Strategies
  /\ corpus = <<>> /\ first = NoResult

\* One run of the program, with any of the four orderings as the live one.
Init == Configured /\ run = 0 /\ Start

\* One run of the program as it stands: ordering 1 is the live one.
InitShipped == Init /\ strategy = 1

\* The first of two runs over the same files and the same oracle.
InitTwice == Configured /\ run = 1 /\ Start

\* The orderings alone: main after its report, over one directory whose
\* files (at most longest) were all scored, each with a single label
\* (num_top_predictions = 1) of a confidence among confidences, above 0.
SingleLabel(l, s) == <<[label |-> l, score |-> s]>>
AfterReport(longest, confidences, live) ==
  \E n \in 1 .. longest :
    \E pick \in [1 .. n -> (1 .. Len(LabelsFile)) \X confidences] :
      LET answer(i) == SingleLabel(LabelsFile[pick[i][1]], pick[i][2])
          name == DirNames[1]
          hits == Cardinality({ i \in 1 .. n : LabelsFile[pick[i][1]] = LabelOfDir(name) })
          fscore == FScore(hits, n - hits, n - hits)
          last == TopTwo(answer(n))
      IN
      /\ FLAGS_num_top_predictions = 1
      /\ labels = LabelsFile
      /\ strategy \in live
      /\ run = 0 /\ first = NoResult
      /\ corpus = <<[name |-> name, files |-> [i \in 1 .. n |-> Unknown]]>>
      /\ pc = "order" /\ traceback = ""
      /\ total_images = n /\ total_labels = 1
      /\ microfscores = MicroAdd(Zero, fscore, n) /\ macrofscores = MacroAdd(Zero, fscore)
      /\ all_predictions = [i \in 1 .. n |-> ImageInfo(<<1, i>>, TopTwo(answer(i)))]
      /\ label = LabelOfDir(name) /\ file_no = n /\ count = n
      /\ tp = hits /\ fn = n - hits /\ fp = n - hits
      /\ image = <<1, n>> /\ predictions = answer(n)
      /\ top_prediction = last.top_prediction /\ top_confidence = last.top_confidence
      /\ second_prediction = last.second_prediction
      /\ second_confidence = last.second_confidence
      /\ label_report = <<[label |-> LabelOfDir(name), fscore |-> fscore, count |-> n,
                           tp |-> hits, fp |-> n - hits, fn |-> n - hits]>>
      /\ microf = RatDiv(MicroAdd(Zero, fscore, n), RatOfInt(n))
      /\ macrof = RatDiv(MacroAdd(Zero, fscore), RatOfInt(1))
      /\ ordered_labels = <<>> /\ keep_going = FALSE /\ next_label = 0 /\ output = <<>>

\* The two sorts alone, over any confidences; the two interleavings alone,
\* over longer lists of one confidence.
InitOrder == AfterReport(MaxSorted, 1 .. MaxScore, {1, 2})
InitInterleave == AfterReport(MaxRecords, {MaxScore}, {3, 4})

\* ------------------------------------------------------- the driver loop
\* for label_dir in label_dirs_path: (lines 174-185)
StartLabelDir ==
  /\ pc = "dirs"
  /\ \E name \in { DirNames[i] : i \in 1 .. Len(DirNames) } :
       /\ IF Replaying
          THEN total_labels < Len(corpus) /\ name = corpus[total_labels + 1].name
          ELSE total_labels < MaxDirs /\ name \notin ListedNames
       /\ corpus' = IF Replaying THEN corpus
                    ELSE Append(corpus, [name |-> name, files |-> <<>>])
       /\ label' = LabelOfDir(name)
  /\ total_labels' = total_labels + 1
  /\ file_no' = 0 /\ count' = 0 /\ tp' = 0 /\ fn' = 0 /\ fp' = 0
  /\ pc' = "images"
  /\ UNCHANGED <<config, run, first, traceback, total_images, microfscores, macrofscores,
                 all_predictions, image, scanned, reported, ordering>>

\* for image in images: if random.random() > 0.05: continue (lines 187-189)
SampleImage ==
  /\ pc = "images"
  /\ IF Replaying THEN file_no < Len(corpus[total_labels].files) ELSE Listed < MaxImages
  /\ corpus' = IF Replaying THEN corpus
               ELSE [corpus EXCEPT ![total_labels].files = Append(@, Unknown)]
  /\ file_no' = file_no + 1
  /\ image' = <<total_labels, file_no + 1>>
  /\ \E skipped \in BOOLEAN : pc' = IF skipped THEN "images" ELSE "body"
  /\ UNCHANGED <<config, run, first, traceback, totals, counters, scanned, reported, ordering>>

\* The rest of the loop body (lines 191-230).
ProcessImage ==
  /\ pc = "body"
  /\ \E preds \in OracleAnswers(labels, FLAGS_num_top_predictions) :
       LET known == corpus[total_labels].files[file_no]
           st == TopTwo(preds)
       IN
       /\ (Replaying /\ known.seen) => preds = known.predictions
       /\ predictions' = preds
       /\ top_prediction' = st.top_prediction
       /\ top_confidence' = st.top_confidence
       /\ second_prediction' = st.second_prediction
       /\ second_confidence' = st.second_confidence
       /\ corpus' = IF run = 1
                    THEN [corpus EXCEPT ![total_labels].files[file_no] =
                                          [seen |-> TRUE, predictions |-> preds]]
                    ELSE corpus
       /\ IF RatioRaises(st)
          THEN /\ pc' = "aborted" /\ traceback' = "ratio"
               /\ UNCHANGED <<totals, counters>>
          ELSE /\ all_predictions' = Append(all_predictions, ImageInfo(image, st))
               /\ IF st.top_prediction = label
                  THEN tp' = tp + 1 /\ UNCHANGED <<fn, fp>>
                  ELSE fn' = fn + 1 /\ fp' = fp + 1 /\ tp' = tp
               /\ count' = count + 1
               /\ total_images' = total_images + 1
               /\ pc' = "images" /\ traceback' = traceback
               /\ UNCHANGED <<total_labels, microfscores, macrofscores, label>>
  /\ UNCHANGED <<config, run, first, file_no, image, reported, ordering>>

\* After the images of one label: its f-score and the two sums (232-243).
EndLabelDir ==
  /\ pc = "images"
  /\ Replaying => file_no = Len(corpus[total_labels].files)
  /\ LET fscore == FScore(tp, fp, fn) IN
       /\ label_report' = Append(label_report,
                                 [label |-> label, fscore |-> fscore, count |-> count,
                                  tp |-> tp, fp |-> fp, fn |-> fn])
       /\ microfscores' = MicroAdd(microfscores, fscore, count)
       /\ macrofscores' = MacroAdd(macrofscores, fscore)
  /\ pc' = "dirs"
  /\ UNCHANGED <<config, replay, traceback, total_images, total_labels, all_predictions,
                 counters, file_no, image, scanned, microf, macrof, ordering>>

\* microf and macrof (lines 245-251); a corpus with nothing scored raises.
Report ==
  /\ pc = "dirs"
  /\ Replaying => total_labels = Len(corpus)
  /\ IF total_images = 0
     THEN pc' = "aborted" /\ traceback' = "microf" /\ UNCHANGED <<microf, macrof>>
     ELSE /\ microf' = RatDiv(microfscores, RatOfInt(total_images))
          /\ macrof' = RatDiv(macrofscores, RatOfInt(total_labels))
          /\ pc' = "order" /\ traceback' = traceback
  /\ UNCHANGED <<config, replay, totals, counters, file_no, image, scanned, label_report,
                 ordering>>

\* ------------------------------------------------------- the orderings
\* 1. least confident first (lines 258-261)
OrderLeastConfident ==
  /\ pc = "order" /\ strategy = 1
  /\ all_predictions' = ListSort(all_predictions, "top_confidence")
  /\ output' = Images(all_predictions')
  /\ pc' = "done"
  /\ UNCHANGED <<config, replay, traceback, total_images, total_labels, microfscores,
                 macrofscores, counters, file_no, image, scanned, reported,
                 ordered_labels, keep_going, next_label>>

\* 2. closest ratios first (lines 263-268)
OrderClosestRatio ==
  /\ pc = "order" /\ strategy = 2
  /\ all_predictions' = ListSort(all_predictions, "ratio")
  /\ output' = Images(all_predictions')
  /\ pc' = "done"
  /\ UNCHANGED <<config, replay, traceback, total_images, total_labels, microfscores,
                 macrofscores, counters, file_no, image, scanned, reported,
                 ordered_labels, keep_going, next_label>>

\* 3. one list of images per top label (lines 273-281)
BuildLabelQueues ==
  /\ pc = "order" /\ strategy = 3
  /\ ordered_labels' = BuildQueues(all_predictions, FALSE)
  /\ keep_going' = TRUE
  /\ pc' = "while"
  /\ UNCHANGED <<config, replay, traceback, totals, counters, file_no, image, scanned,
                 reported, next_label, output>>

\* 4. sorted by ratio, one list of images per pair of labels (lines 296-305)
BuildPairQueues ==
  /\ pc = "order" /\ strategy = 4
  /\ all_predictions' = ListSort(all_predictions, "ratio")
  /\ ordered_labels' = BuildQueues(all_predictions', TRUE)
  /\ keep_going' = TRUE
  /\ pc' = "while"
  /\ UNCHANGED <<config, replay, traceback, total_images, total_labels, microfscores,
                 macrofscores, counters, file_no, image, scanned, reported,
                 next_label, output>>

\* (mutant) a round that leaves keep_going set
StartRoundKeepsGoing ==
  /\ pc = "while" /\ keep_going
  /\ next_label' = 1
  /\ pc' = IF Len(ordered_labels) = 0 THEN "while" ELSE "for"
  /\ UNCHANGED <<config, replay, traceback, totals, counters, file_no, image, scanned,
                 reported, ordered_labels, output, keep_going>>

\* while keep_going: keep_going = False; for label in ordered_labels:
StartRound ==
  /\ pc = "while" /\ keep_going
  /\ keep_going' = FALSE
  /\ next_label' = 1
  /\ pc' = IF Len(ordered_labels) = 0 THEN "while" ELSE "for"
  /\ UNCHANGED <<config, replay, traceback, totals, counters, file_no, image, scanned,
                 reported, ordered_labels, output>>

\* One pass of the for loop: pop and print the first image of a list that
\* has one (lines 285-289).
VisitQueue ==
  /\ pc = "for"
  /\ LET images == ordered_labels[next_label].images IN
       IF Len(images) > 0
       THEN /\ ordered_labels' = [ordered_labels EXCEPT ![next_label] = PopFirst(@)]
            /\ output' = Append(output, Head(images))
            /\ keep_going' = TRUE
       ELSE UNCHANGED <<ordered_labels, output, keep_going>>
  /\ next_label' = next_label + 1
  /\ pc' = IF next_label = Len(ordered_labels) THEN "while" ELSE "for"
  /\ UNCHANGED <<config, replay, traceback, totals, counters, file_no, image, scanned,
                 reported>>

\* The while loop ends after a round that popped nothing.
EndRounds ==
  /\ pc = "while" /\ ~keep_going
  /\ pc' = "done"
  /\ UNCHANGED <<config, replay, traceback, totals, counters, file_no, image, scanned,
                 reported, ordering>>

Driver == StartLabelDir \/ SampleImage \/ ProcessImage \/ EndLabelDir \/ Report
Sort == OrderLeastConfident \/ OrderClosestRatio
Rounds == StartRound \/ VisitQueue \/ EndRounds
Interleave == BuildLabelQueues \/ BuildPairQueues \/ Rounds
Order == Sort \/ Interleave

\* The program run again, after a run that ended normally, over the same
\* directories, files and oracle.
Rerun ==
  /\ pc = "done" /\ run = 1
  /\ run' = 2
  /\ first' = [output |-> output, label_report |-> label_report, microf |-> microf,
               macrof |-> macrof, images |-> Images(all_predictions)]
  /\ pc' = "dirs" /\ traceback' = ""
  /\ total_images' = 0 /\ total_labels' = 0
  /\ microfscores' = Zero /\ macrofscores' = Zero
  /\ all_predictions' = <<>>
  /\ label' = "" /\ file_no' = 0 /\ count' = 0 /\ tp' = 0 /\ fn' = 0 /\ fp' = 0
  /\ image' = <<0, 0>> /\ predictions' = <<>>
  /\ top_prediction' = "" /\ top_confidence' = 0
  /\ second_prediction' = "" /\ second_confidence' = 0
  /\ label_report' = <<>> /\ microf' = Zero /\ macrof' = Zero
  /\ ordered_labels' = <<>> /\ keep_going' = FALSE /\ next_label' = 0 /\ output' = <<>>
  /\ UNCHANGED <<config, corpus>>

Next == Driver \/ Order
NextShipped == Driver \/ OrderLeastConfident
NextTwice == Driver \/ Order \/ Rerun

Spec == Init /\ [][Next]_vars
SpecShipped == InitShipped /\ [][NextShipped]_vars
SpecTwice == InitTwice /\ [][NextTwice]_vars
SpecOrder == InitOrder /\ [][Sort]_vars
\* The while loop runs on once entered: a loop that can step does step.
SpecInterleave == InitInterleave /\ [][Interleave]_vars /\ WF_vars(Rounds)


\* ------------------------------------------------------------ properties
Elems(seq) == { seq[i] : i \in 1 .. Len(seq) }
Last(seq) == seq[Len(seq)]
InfoOf(img) == CHOOSE info \in Elems(all_predictions) : info.image = img
Traversed == pc \in {"order", "while", "for", "done"}

\* An entry ranks before another when its score is higher, or equal and it
\* was seen first.
RanksBefore(preds, i, j) ==
  \/ preds[i].score > preds[j].score
  \/ preds[i].score = preds[j].score /\ i < j
Best(preds) == CHOOSE i \in 1 .. Len(preds) :
                 \A j \in 1 .. Len(preds) \ {i} : RanksBefore(preds, i, j)
SecondBest(preds) == CHOOSE i \in 1 .. Len(preds) \ {Best(preds)} :
                       \A j \in 1 .. Len(preds) \ {Best(preds), i} : RanksBefore(preds, i, j)

\* C1: after the scan of a score map with at least two labels,
\* top_confidence >= second_confidence and top_prediction, second_prediction
\* are the two highest-scoring entries, the first seen winning among equals.
C1_TopTwoAreTheTwoHighest ==
  Len(predictions) >= 2 =>
    /\ top_confidence >= second_confidence
    /\ top_prediction = predictions[Best(predictions)].label
    /\ top_confidence = predictions[Best(predictions)].score
    /\ second_prediction = predictions[SecondBest(predictions)].label
    /\ second_confidence = predictions[SecondBest(predictions)].score

\* The scored items of directory d, and those predicted as a given label.
ItemsOf(d) == { i \in 1 .. Len(all_predictions) : all_predictions[i].image[1] = d }
PredictedAs(l) == { i \in 1 .. Len(all_predictions) : all_predictions[i].top_prediction = l }

\* C2: once every item is scored, a label's true positives are its items
\* predicted as it, its false negatives are its items predicted as another
\* label, and its false positives are the items of other labels predicted
\* as it.
C2_CountersChargeThePredictedLabel ==
  Traversed =>
    \A d \in 1 .. Len(label_report) :
      LET r == label_report[d] IN
      /\ r.tp = Cardinality(ItemsOf(d) \cap PredictedAs(r.label))
      /\ r.fn = Cardinality(ItemsOf(d) \ PredictedAs(r.label))
      /\ r.fp = Cardinality(PredictedAs(r.label) \ ItemsOf(d))

\* C7: the mark of a ratio that was not computed.
Undefined == <<0, 0>>

\* C7: scoring a map with exactly one label appends a record with that label
\* and score, an empty second label, a second confidence of 0 and a ratio
\* marked as undefined, and the run goes on to the next item.
C7_SingleLabelIsFlagged ==
  [][(pc = "body" /\ Len(predictions') = 1) =>
       /\ pc' = "images"
       /\ Len(all_predictions') = Len(all_predictions) + 1
       /\ Last(all_predictions').image = image
       /\ Last(all_predictions').top_prediction = predictions'[1].label
       /\ Last(all_predictions').top_confidence = predictions'[1].score
       /\ Last(all_predictions').second_prediction = ""
       /\ Last(all_predictions').second_confidence = 0
       /\ Last(all_predictions').ratio = Undefined]_vars

\* C8: an item for which the oracle returns nothing is skipped: no record is
\* appended, no counter changes, and the run goes on to the next item.
C8_NothingReturnedIsSkipped ==
  [][(pc = "body" /\ predictions' = <<>>) =>
       /\ pc' = "images"
       /\ UNCHANGED <<all_predictions, count, total_images, tp, fp, fn>>]_vars

\* C10: in the lists of ordering 4, as built, two records share a list
\* exactly when they have the same top label and the same second label.
QueuesAsBuilt == pc = "while" /\ keep_going /\ output = <<>>
ShareQueue(a, b) == \E q \in 1 .. Len(ordered_labels) :
                      {a.image, b.image} \subseteq Elems(ordered_labels[q].images)
C10_PairsPartitionTheRecords ==
  (strategy = 4 /\ QueuesAsBuilt) =>
    \A a, b \in Elems(all_predictions) :
      ShareQueue(a, b) <=> (/\ a.top_prediction = b.top_prediction
                            /\ a.second_prediction = b.second_prediction)

\* C5: a second run over the same items and the same oracle answers ends as
\* the first did, having scored the same items, with the same ordered
\* output and the same f-scores, micro-f and macro-f.
Printed(report) == [d \in 1 .. Len(report) |-> <<report[d].label, report[d].fscore>>]
C5_SecondRunRepeatsTheFirst ==
  (run = 2 /\ pc \in {"done", "aborted"}) =>
    /\ pc = "done"
    /\ Elems(Images(all_predictions)) = Elems(first.images)
    /\ output = first.output
    /\ Printed(label_report) = Printed(first.label_report)
    /\ microf = first.microf
    /\ macrof = first.macrof

\* The f-score of a label from its counters, as a fraction: 0 without true
\* positives, else 2 * precision * recall / (precision + recall), which is
\* 2 tp / (2 tp + fp + fn).
FractionF(r) == IF r.tp = 0 THEN <<0, 1>> ELSE <<2 * r.tp, 2 * r.tp + r.fp + r.fn>>

RECURSIVE DenProduct(_)
DenProduct(report) ==
  IF report = <<>> THEN 1 ELSE FractionF(Head(report))[2] * DenProduct(Tail(report))

\* The sum over the labels of weight * f-score, times DenProduct.
RECURSIVE WeightedFrom(_, _, _)
WeightedFrom(report, weight, d) ==
  IF d > Len(report) THEN 0
  ELSE FractionF(report[d])[1] * weight[d] * (DenProduct(report) \div FractionF(report[d])[2])
       + WeightedFrom(report, weight, d + 1)

\* C6: after the report, every printed f-score is 0 for a label without true
\* positives and 2 * precision * recall / (precision + recall) otherwise;
\* micro_f is the sum of f-score times the number of scored items of the
\* label, divided by the number of scored items; macro_f is the sum of the
\* f-scores divided by the number of labels.
C6_MicroAndMacroAreTheMeans ==
  Traversed =>
    LET L == Len(label_report)
        N == Len(all_predictions)
        D == DenProduct(label_report)
        items == [d \in 1 .. L |-> Cardinality(ItemsOf(d))]
        ones == [d \in 1 .. L |-> 1]
    IN
    /\ \A d \in 1 .. L :
         /\ label_report[d].tp = Cardinality(ItemsOf(d) \cap PredictedAs(label_report[d].label))
         /\ label_report[d].fscore[2] > 0
         /\ label_report[d].fscore[1] * FractionF(label_report[d])[2]
              = label_report[d].fscore[2] * FractionF(label_report[d])[1]
    /\ microf[2] > 0 /\ macrof[2] > 0
    /\ microf[1] * (N * D) = microf[2] * WeightedFrom(label_report, items, 1)
    /\ macrof[1] * (L * D) = macrof[2] * WeightedFrom(label_report, ones, 1)

\* C6: a finished run with two labels, one with two scored items of which one
\* is a true positive, so that micro_f and macro_f differ.
C6_Witness ==
  /\ pc = "done" /\ Len(label_report) = 2
  /\ \E d \in 1 .. 2 : label_report[d].count = 2 /\ label_report[d].tp = 1
  /\ microf # macrof /\ microf # Zero

AppendedBefore(a, b) == a[1] < b[1] \/ (a[1] = b[1] /\ a[2] < b[2])

PlaceOf(img) == CHOOSE i \in 1 .. Len(all_predictions) : all_predictions[i].image = img
TopLabelOf(img) == InfoOf(img).top_prediction
FirstSeen(l) == CHOOSE i \in 1 .. Len(all_predictions) :
                  /\ all_predictions[i].top_prediction = l
                  /\ \A j \in 1 .. i - 1 : all_predictions[j].top_prediction # l
RankInLabel(img) ==
  Cardinality({ i \in 1 .. PlaceOf(img) :
                  all_predictions[i].top_prediction = TopLabelOf(img) })
RoundRobinBefore(a, b) ==
  \/ RankInLabel(a) < RankInLabel(b)
  \/ /\ RankInLabel(a) = RankInLabel(b)
     /\ FirstSeen(TopLabelOf(a)) < FirstSeen(TopLabelOf(b))

\* C4: ordering 3 never prints an item of the label it printed last while the
\* list of another label still holds an item, and it visits the lists in the
\* order in which their labels were first seen: the k-th items of the labels
\* come before the (k+1)-th, each round in first-seen label order; the top
\* labels A, A, B, A, B, C are printed as A, B, C, A, B, A.
ExampleLabels == <<LabelsFile[1], LabelsFile[1], LabelsFile[2], LabelsFile[1],
                   LabelsFile[2], LabelsFile[3]>>
ExampleOutput == <<<<1, 1>>, <<1, 3>>, <<1, 6>>, <<1, 2>>, <<1, 5>>, <<1, 4>>>>
IsExample == [i \in 1 .. Len(all_predictions) |-> all_predictions[i].top_prediction]
               = ExampleLabels

C4_RoundRobinInterleaves ==
  /\ [][(/\ strategy = 3 /\ pc = "for"
         /\ output # <<>> /\ output' # output
         /\ TopLabelOf(Last(output')) = TopLabelOf(Last(output)))
        => \A q \in 1 .. Len(ordered_labels) :
             q # next_label => ordered_labels[q].images = <<>>]_vars
  /\ []((strategy = 3 /\ pc \in {"while", "for", "done"}) =>
          /\ \A i, j \in 1 .. Len(output) : i < j => RoundRobinBefore(output[i], output[j])
          /\ (IsExample /\ pc = "done") => output = ExampleOutput)

\* C4: a finished interleaving over several labels that printed two items of
\* one label in a row, the other lists being used up.
C4_Witness ==
  /\ strategy = 3 /\ pc = "done" /\ Len(output) >= 4
  /\ Cardinality({ TopLabelOf(output[i]) : i \in 1 .. Len(output) }) >= 2
  /\ \E i \in 1 .. Len(output) - 1 : TopLabelOf(output[i]) = TopLabelOf(output[i + 1])
  /\ TopLabelOf(output[1]) # TopLabelOf(output[2])

\* Every list is empty and every recorded item was printed exactly once.
PrintedAllOnce ==
  /\ \A q \in 1 .. Len(ordered_labels) : ordered_labels[q].images = <<>>
  /\ Len(output) = Len(all_predictions)
  /\ \A k \in 1 .. Len(all_predictions) :
       Cardinality({ i \in 1 .. Len(output) : output[i] = all_predictions[k].image }) = 1

\* C9: the while loop of ordering 3, once entered, ends, and when it has
\* ended every list is empty and every recorded item was printed exactly
\* once.  (Nothing follows the end of main, so a run that ended otherwise
\* would stay so.)
C9_RoundRobinEndsComplete ==
  (strategy = 3 /\ pc = "while") ~> (pc = "done" /\ PrintedAllOnce)

\* C9: a finished interleaving of three or more items over several lists.
C9_Witness ==
  /\ strategy = 3 /\ pc = "done"
  /\ Len(output) >= 3 /\ Len(ordered_labels) >= 2

=============================================================================
